---- MODULE Spec2Model ----
(***************************************************************************)
(* Model of the chunked, hash-verified, resumable transfer engine of       *)
(* sshx-stream.go (push and pull).  Byte strings are abstracted to         *)
(* (origin, length) pairs; file sizes and offsets are exact byte counts.   *)
(***************************************************************************)
EXTENDS Integers, Sequences, FiniteSets, Bags, TLC

\* ------------------------------------------------------------------------
\* Program constants (sshx-stream.go:21-25)
ChunkSize == 4 * 1024 * 1024
MaxRetry == 3
Workers == 3

\* Bounds of the model
MaxChunks == 2
MaxRuns == 2
MaxTargetLen == 3
MaxPoolChunks == 4

Max(a, b) == IF a >= b THEN a ELSE b
Min(a, b) == IF a <= b THEN a ELSE b

\* chunk positions of a staging file
Slots == 0 .. (Max(MaxChunks, MaxPoolChunks) - 1)

\* Archive sizes tried: for every chunk count up to MaxChunks, one size that
\* ends in a short final chunk and one that is an exact multiple of ChunkSize.
Sizes == { k * ChunkSize + 1 : k \in 0 .. (MaxChunks - 1) }
             \cup { (k + 1) * ChunkSize : k \in 0 .. (MaxChunks - 1) }

\* An archive of more chunks than chunkChan has room for, with a short last one
PoolSizes == { (MaxPoolChunks - 1) * ChunkSize + 1 }

\* ------------------------------------------------------------------------
\* Byte strings.  kind "src": the bytes of chunk k of the current source
\* archive, cut to len bytes; "bad": any other bytes; "zero": a hole.
Bytes(kind, k, len) == [kind |-> kind, k |-> k, len |-> len]
Empty == Bytes("zero", 0, 0)

\* sha256Bytes: collision-free digest of a byte string
sha256Bytes(b) == <<"sha256", b.kind, b.k, b.len>>

\* totalChunks := int((fileSize + ChunkSize - 1) / ChunkSize)
TotalChunksPlusOne(size) == size \div ChunkSize + 1

TotalChunks(size) == (size + ChunkSize - 1) \div ChunkSize

\* number of bytes file.Read / dd count=1 returns for the block at index i
\* of a file of the given size
BlockLen(size, i) == Max(0, Min(size, (i + 1) * ChunkSize) - i * ChunkSize)

\* the bytes of chunk i of the source archive
SourceChunk(total, i) == Bytes("src", i, BlockLen(total, i))

\* ------------------------------------------------------------------------
\* The receiving-side staging file: its size and what each block holds.
NoFile == [exists |-> FALSE, size |-> 0,
           data |-> [j \in Slots |-> [kind |-> "zero", k |-> 0]]]

\* dd if=<staging> bs=ChunkSize skip=i count=1
ReadBlock(st, i) ==
    IF BlockLen(st.size, i) = 0 THEN Empty
    ELSE Bytes(st.data[i].kind, st.data[i].k, BlockLen(st.size, i))

\* dd of=<staging> bs=ChunkSize seek=i conv=notrunc  /  Seek + Write:
\* b lands at offset i*ChunkSize, nothing is truncated, and a gap between
\* the old end of file and the written range reads as zeros.
WriteAt(st, i, b) ==
    LET newSize == Max(st.size, i * ChunkSize + b.len)
        tag(j) ==
            IF j = i
            THEN IF b.len >= BlockLen(st.size, i)
                 THEN [kind |-> b.kind, k |-> b.k]
                 ELSE IF st.data[i] = [kind |-> b.kind, k |-> b.k] /\ b.kind = "src"
                      THEN st.data[i]
                      ELSE [kind |-> "bad", k |-> 0]
            ELSE IF BlockLen(newSize, j) > BlockLen(st.size, j)
                    /\ st.data[j].kind # "zero"
                 THEN [kind |-> "bad", k |-> 0]
                 ELSE st.data[j]
    IN  IF b.len = 0 /\ ~st.exists
        THEN [exists |-> TRUE, size |-> 0, data |-> NoFile.data]
        ELSE [exists |-> TRUE, size |-> newSize, data |-> [j \in Slots |-> tag(j)]]

\* block i of the staging file is exactly chunk i of the source archive
BlockIsSource(st, total, i) == ReadBlock(st, i) = SourceChunk(total, i)


\* ------------------------------------------------------------------------
\* State
VARIABLES
    mode,          \* os.Args[1]: "push" or "pull"
    totalBytes,    \* fileSize (push) / size (pull): size of the source archive
    staging,       \* receiving side: <remote>/.sshx_partial.tar.gz or localTmp
    pc,            \* position of the main goroutine
    outcome,       \* how the process ended ("none" while it runs)
    failedChunk,   \* chunk index named by the "Chunk %d failed" message
    cancelled,     \* ctx.Err() != nil
    startChunk,
    totalChunks,
    transferred,
    fileOff,       \* push: read offset of file (the local archive)
    next,          \* loop variable i of ProducerLoop
    chunkChan,     \* buffered channel, capacity Workers
    closed,        \* close(chunkChan) was called
    workers,       \* the worker goroutines, as the bag of their states
    remoteHashes,  \* pull: the prefetched hash table
    mu,            \* pull: the local-file mutex is held
    localOff,      \* pull: offset of localFile set by the last Seek
    run,           \* number of the current invocation
    archiveChanged,\* the source directory changed between two invocations
    resumeSize,    \* size of the staging file when the resume check read it
    verified,      \* chunks whose receiving-side hash equalled the sending side
    acked,         \* chunks a worker reported as successful in this run
    touched,       \* chunks read, enqueued or attempted in this run
    attempts,      \* attempts started for a chunk by the worker that holds it
    cancelPhase,   \* where the main goroutine was when the token was triggered
    extractRan,    \* the extraction step was started in this run
    stagingRemoved,\* the staging file was deleted after extraction in this run
    statFailed,    \* push: the remote stat of the staging file failed
    target,        \* os.Args[2], as the sequence of its characters
    master,        \* what this invocation did with its ssh control master
    tmpTar,        \* push: the local tarball /tmp/.sshx_<dir>.tar.gz exists
    remoteCmd,     \* a command was sent through sshCmd in this invocation
    recovered,     \* an attempt after a failed one found matching hashes
    validated,     \* tar -tzf accepted the staging file in this run
    enqueued,      \* how often each chunk index was sent on chunkChan
    dequeued       \* how often each chunk index was received from chunkChan

procVars == <<pc, outcome, failedChunk, cancelled, startChunk, totalChunks,
              transferred, fileOff, next, chunkChan, closed, workers,
              remoteHashes, mu, localOff>>
envVars == <<mode, target, totalBytes, staging, run, archiveChanged>>
mainVars == <<master, tmpTar, remoteCmd>>
ghostVars == <<recovered, validated, enqueued, dequeued>>
histVars == <<resumeSize, verified, acked, touched, attempts, cancelPhase,
              extractRan, stagingRemoved, statFailed>>
vars == <<procVars, envVars, histVars, mainVars, ghostVars>>

\* os.Args[1] and os.Args[2] as the operator may give them
Modes == {"push", "pull", "sync"}
Letters == {"u", "@", ":"}
Targets == UNION { [1 .. n -> Letters] : n \in 0 .. MaxTargetLen }
UsualTargets == { <<"u", "@", "u", ":", "u">>, <<"u", "@", "u">> }

\* A chunk travelling through chunkChan: Chunk{Index, Data} in push, the bare
\* index in pull (Data stays Empty).
Chunk(i, d) == [Index |-> i, Data |-> d]
NoChunk == Chunk(0, Empty)

Worker(p, c, r) == [pc |-> p, chunk |-> c, r |-> r]
NotStarted == Worker("none", NoChunk, 0)
Selecting == Worker("select", NoChunk, 0)
Returned == Worker("returned", NoChunk, 0)

\* for w := 0; w < Workers; w++ { wg.Add(1); go func() {...}() }: the goroutines
\* carry no identity, so the group is the bag of their states
All(wk) == wk :> Workers
Running == BagToSet(workers)
Becomes(wk, new) == (workers (-) SetToBag({wk})) (+) SetToBag({new})

\* The state of a process right after it was started.
FreshProcess ==
    /\ outcome = "none"
    /\ failedChunk = 0
    /\ cancelled = FALSE
    /\ startChunk = 0
    /\ totalChunks = 0
    /\ transferred = 0
    /\ fileOff = 0
    /\ next = 0
    /\ chunkChan = <<>>
    /\ closed = FALSE
    /\ workers = All(NotStarted)
    /\ remoteHashes = <<>>
    /\ mu = FALSE
    /\ localOff = 0
    /\ resumeSize = 0
    /\ verified = {}
    /\ acked = {}
    /\ touched = {}
    /\ attempts = [j \in Slots |-> 0]
    /\ cancelPhase = "none"
    /\ extractRan = FALSE
    /\ stagingRemoved = FALSE
    /\ statFailed = FALSE
    /\ master = "none"
    /\ remoteCmd = FALSE
    /\ recovered = FALSE
    /\ validated = FALSE
    /\ enqueued = [j \in Slots |-> 0]
    /\ dequeued = [j \in Slots |-> 0]

\* The same, as the state a new invocation begins in.
StartProcess ==
    /\ outcome' = "none"
    /\ failedChunk' = 0
    /\ cancelled' = FALSE
    /\ startChunk' = 0
    /\ totalChunks' = 0
    /\ transferred' = 0
    /\ fileOff' = 0
    /\ next' = 0
    /\ chunkChan' = <<>>
    /\ closed' = FALSE
    /\ workers' = All(NotStarted)
    /\ remoteHashes' = <<>>
    /\ mu' = FALSE
    /\ localOff' = 0
    /\ resumeSize' = 0
    /\ verified' = {}
    /\ acked' = {}
    /\ touched' = {}
    /\ attempts' = [j \in Slots |-> 0]
    /\ cancelPhase' = "none"
    /\ extractRan' = FALSE
    /\ stagingRemoved' = FALSE
    /\ statFailed' = FALSE
    /\ master' = "none"
    /\ remoteCmd' = FALSE
    /\ recovered' = FALSE
    /\ validated' = FALSE
    /\ enqueued' = [j \in Slots |-> 0]
    /\ dequeued' = [j \in Slots |-> 0]

\* switch mode { case "push": push(...)  case "pull": pull(...) }
EntryPoint(m) == IF m = "push" THEN "push_tar" ELSE "pull_tar"

\* The command line and the files a first invocation finds.
Arguments ==
    /\ mode \in Modes
    /\ totalBytes \in Sizes
    /\ staging = NoFile
    /\ tmpTar = FALSE
    /\ pc = "main_target"
    /\ run = 1
    /\ archiveChanged = FALSE
    /\ FreshProcess

Init ==
    /\ target \in UsualTargets
    /\ Arguments


\* ------------------------------------------------------------------------
\* fatal(msg, err): print and os.Exit(1).  No deferred call runs.
Fatal(kind) ==
    /\ pc' = "exited"
    /\ outcome' = kind

\* The part of the run a position of the main goroutine belongs to: up to the
\* return of wg.Wait(), validation, extraction.
Phase(p) == IF p \in {"validate", "extract"} THEN p ELSE "transfer"

\* The interrupt handler: <-sig; cancel()
Cancel ==
    /\ pc \notin {"main_target", "exited"}
    /\ ~cancelled
    /\ cancelled' = TRUE
    /\ cancelPhase' = Phase(pc)
    /\ UNCHANGED <<pc, outcome, failedChunk, startChunk, totalChunks, transferred,
                   fileOff, next, chunkChan, closed, workers, remoteHashes, mu,
                   localOff, envVars, resumeSize, verified, acked, touched,
                   attempts, extractRan, stagingRemoved, statFailed,
                   mainVars, ghostVars>>

\* ------------------------------------------------------------------------
\* main

\* strings.Contains(s, substr) for a one-character substr
Contains(s, ch) == \E i \in 1 .. Len(s) : s[i] = ch

\* strings.Index(s, substr) for a one-character substr, 0 when it is absent
Index(s, ch) ==
    IF Contains(s, ch) THEN CHOOSE i \in 1 .. Len(s) :
                                /\ s[i] = ch
                                /\ \A j \in 1 .. (i - 1) : s[j] # ch
    ELSE 0

\* strings.Split(s, sep) for a one-character sep; Split("", sep) is [""]
RECURSIVE Split(_, _)
Split(s, sep) ==
    IF ~Contains(s, sep) THEN <<s>>
    ELSE <<SubSeq(s, 1, Index(s, sep) - 1)>>
             \o Split(SubSeq(s, Index(s, sep) + 1, Len(s)), sep)

\* if !strings.Contains(target, "@") || !strings.Contains(target, ":") { fatal }
TargetFormat(t) == ~(~Contains(t, "@") \/ ~Contains(t, ":"))

\* parts := strings.Split(target, "@"); hostParts := strings.Split(parts[1], ":")
HostParts(t) == Split(Split(t, "@")[2], ":")

\* if len(hostParts) != 2 { fatal }
HostPortAny(hostParts) == TRUE

HostPort(hostParts) == ~(Len(hostParts) # 2)

\* the two checks of os.Args[2]
MainTarget ==
    /\ pc = "main_target"
    /\ IF ~TargetFormat(target)
       THEN Fatal("InvalidTarget")
       ELSE IF ~HostPort(HostParts(target))
            THEN Fatal("InvalidHostPort")
            ELSE /\ pc' = "main_master"
                 /\ UNCHANGED outcome
    /\ UNCHANGED <<failedChunk, cancelled, startChunk, totalChunks, transferred,
                   fileOff, next, chunkChan, closed, workers, remoteHashes, mu,
                   localOff, envVars, histVars, mainVars, ghostVars>>

\* ssh -o ControlMaster=yes -o ControlPersist=600 -o ControlPath=<socket> -fN
MainMaster ==
    /\ pc = "main_master"
    /\ \/ /\ master' = "established"
          /\ pc' = "main_mode"
          /\ UNCHANGED outcome
       \/ /\ Fatal("MultiplexFailed")
          /\ UNCHANGED master
    /\ UNCHANGED <<failedChunk, cancelled, startChunk, totalChunks, transferred,
                   fileOff, next, chunkChan, closed, workers, remoteHashes, mu,
                   localOff, envVars, histVars, tmpTar, remoteCmd, ghostVars>>

\* switch mode { case "push": ...  case "pull": ...  default: fatal }
MainMode ==
    /\ pc = "main_mode"
    /\ IF mode \in {"push", "pull"}
       THEN /\ pc' = EntryPoint(mode)
            /\ UNCHANGED outcome
       ELSE Fatal("InvalidMode")
    /\ UNCHANGED <<failedChunk, cancelled, startChunk, totalChunks, transferred,
                   fileOff, next, chunkChan, closed, workers, remoteHashes, mu,
                   localOff, envVars, histVars, mainVars, ghostVars>>

\* ------------------------------------------------------------------------
\* push, up to the start of the workers

\* tar -czf tmpTar ...; os.Stat(tmpTar); totalChunks
PushArchive ==
    /\ pc = "push_tar"
    /\ \/ /\ pc' = "push_mkdir"
          /\ totalChunks' = TotalChunks(totalBytes)
          /\ tmpTar' = TRUE
          /\ UNCHANGED outcome
       \/ /\ Fatal("TarFailed")
          /\ tmpTar' \in {tmpTar, TRUE}
          /\ UNCHANGED totalChunks
    /\ UNCHANGED <<failedChunk, cancelled, startChunk, transferred, fileOff, next,
                   chunkChan, closed, workers, remoteHashes, mu, localOff,
                   envVars, histVars,
                   master, remoteCmd, ghostVars>>

\* sshCmd(mkdir -p remotePath)
PushMkdir ==
    /\ pc = "push_mkdir"
    /\ remoteCmd' = TRUE
    /\ \/ /\ pc' = "push_resume"
          /\ UNCHANGED outcome
       \/ Fatal("RemoteMkdirFailed")
    /\ UNCHANGED <<failedChunk, cancelled, startChunk, totalChunks, transferred,
                   fileOff, next, chunkChan, closed, workers, remoteHashes, mu,
                   localOff, envVars, histVars,
                   master, tmpTar, ghostVars>>

\* stat -c%s <staging> 2>/dev/null || echo 0, then strconv.ParseInt with both
\* errors dropped: a missing file, a failing stat and a failing ssh all read 0.
RemoteSize(st, statOk) == IF statOk /\ st.exists THEN st.size ELSE 0

\* if remoteSize > fileSize { fatal }  if remoteSize%ChunkSize != 0 { fatal }
PushResumeMissingUpperBound(remoteSize, fileSize) == remoteSize % ChunkSize = 0

PushResumeAdmissible(remoteSize, fileSize) ==
    ~(remoteSize > fileSize) /\ ~(remoteSize % ChunkSize # 0)

\* for i := startChunk; ...
LoopStartZero(start) == 0

LoopStart(start) == start

\* file.Seek(int64(startChunk)*ChunkSize, io.SeekStart)
SeekOffset(start) == start * ChunkSize

PushResume ==
    /\ pc = "push_resume"
    /\ \E statOk \in BOOLEAN :
         LET remoteSize == RemoteSize(staging, statOk) IN
         /\ statOk = FALSE => staging.exists
         /\ statFailed' = ~statOk
         /\ resumeSize' = remoteSize
         /\ IF PushResumeAdmissible(remoteSize, totalBytes)
            THEN /\ startChunk' = remoteSize \div ChunkSize
                 /\ fileOff' = SeekOffset(remoteSize \div ChunkSize)
                 /\ transferred' = remoteSize
                 /\ workers' = All(Selecting)
                 /\ next' = LoopStart(remoteSize \div ChunkSize)
                 /\ pc' = "produce"
                 /\ UNCHANGED outcome
            ELSE /\ Fatal("CorruptResume")
                 /\ UNCHANGED <<startChunk, fileOff, transferred, workers, next>>
    /\ UNCHANGED <<failedChunk, cancelled, totalChunks, chunkChan, closed,
                   remoteHashes, mu, localOff, envVars, verified, acked, touched,
                   attempts, cancelPhase, extractRan, stagingRemoved,
                   mainVars, ghostVars>>


\* ------------------------------------------------------------------------
\* pull, up to the start of the workers

\* sshCmd(tar -czf remoteTmp -C remotePath .)
PullArchive ==
    /\ pc = "pull_tar"
    /\ remoteCmd' = TRUE
    /\ \/ /\ pc' = "pull_stat"
          /\ UNCHANGED outcome
       \/ Fatal("RemoteTarFailed")
    /\ UNCHANGED <<failedChunk, cancelled, startChunk, totalChunks, transferred,
                   fileOff, next, chunkChan, closed, workers, remoteHashes, mu,
                   localOff, envVars, histVars,
                   master, tmpTar, ghostVars>>

\* sshCmd(stat -c%s remoteTmp); totalChunks
PullStat ==
    /\ pc = "pull_stat"
    /\ \/ /\ pc' = "pull_resume"
          /\ totalChunks' = TotalChunks(totalBytes)
          /\ UNCHANGED outcome
       \/ /\ Fatal("RemoteStatFailed")
          /\ UNCHANGED totalChunks
    /\ UNCHANGED <<failedChunk, cancelled, startChunk, transferred, fileOff, next,
                   chunkChan, closed, workers, remoteHashes, mu, localOff,
                   envVars, histVars,
                   mainVars, ghostVars>>

\* if info.Size()%ChunkSize != 0 || info.Size() > size { os.Remove; startChunk = 0 }
PullResumeKeepsMisaligned(localSize, size) == ~(localSize > size)

PullResumeAdmissible(localSize, size) ==
    ~(localSize % ChunkSize # 0 \/ localSize > size)

\* os.Stat(localTmp), the resume decision, os.OpenFile(localTmp, O_CREATE|O_RDWR)
PullResume ==
    /\ pc = "pull_resume"
    /\ resumeSize' = staging.size
    /\ IF staging.exists /\ PullResumeAdmissible(staging.size, totalBytes)
       THEN /\ startChunk' = staging.size \div ChunkSize
            /\ staging' = staging
       ELSE /\ startChunk' = 0
            /\ staging' = [NoFile EXCEPT !.exists = TRUE]
    /\ pc' = "pull_prefetch"
    /\ UNCHANGED <<outcome, failedChunk, cancelled, totalChunks, transferred,
                   fileOff, next, chunkChan, closed, workers, remoteHashes, mu,
                   localOff, mode, target, totalBytes, run, archiveChanged, verified,
                   acked, touched, attempts, cancelPhase, extractRan,
                   stagingRemoved, statFailed,
                   mainVars, ghostVars>>

\* The remote loop prints one sha256 line per chunk index in [from, to).
RECURSIVE HashLines(_, _, _)
HashLines(total, from, to) ==
    IF from >= to THEN <<>>
    ELSE <<sha256Bytes(SourceChunk(total, from))>> \o HashLines(total, from + 1, to)

\* strings.Split(strings.TrimSpace(raw), "\n"): an empty output still splits
\* into one (empty) element.
EmptyLine == <<"sha256", "", 0, 0>>
SplitLines(lines) == IF lines = <<>> THEN <<EmptyLine>> ELSE lines

\* the hash prefetch, the count check, then the workers are started
PullPrefetch ==
    /\ pc = "pull_prefetch"
    /\ \/ /\ Fatal("HashFetchFailed")
          /\ UNCHANGED <<remoteHashes, transferred, workers, next>>
       \/ LET hashes == SplitLines(HashLines(totalBytes, startChunk, totalChunks)) IN
          /\ remoteHashes' = hashes
          /\ IF Len(hashes) # totalChunks - startChunk
             THEN /\ Fatal("RemoteHashCountMismatch")
                  /\ UNCHANGED <<transferred, workers, next>>
             ELSE /\ transferred' = startChunk * ChunkSize
                  /\ workers' = All(Selecting)
                  /\ next' = LoopStart(startChunk)
                  /\ pc' = "produce"
                  /\ UNCHANGED outcome
    /\ UNCHANGED <<failedChunk, cancelled, startChunk, totalChunks, fileOff,
                   chunkChan, closed, mu, localOff, envVars, histVars,
                   mainVars, ghostVars>>

\* ------------------------------------------------------------------------
\* ProducerLoop

\* n, err := file.Read(buffer): the next n bytes of the local archive
ReadArchive(total, off) == Bytes("src", off \div ChunkSize, BlockLen(total, off \div ChunkSize))

\* case chunkChan <- Chunk{Index: i, Data: buffer[:n]}  /  case chunkChan <- i
\* (select may take this case whenever the channel has room, also when
\* ctx.Done() is ready as well)
\* the loop's post statement: i++
NextIndexStuck(i) == i

NextIndex(i) == i + 1

ProducerSend ==
    /\ pc = "produce"
    /\ next < totalChunks
    /\ Len(chunkChan) < Workers
    /\ LET data == IF mode = "push" THEN ReadArchive(totalBytes, fileOff) ELSE Empty IN
       /\ chunkChan' = Append(chunkChan, Chunk(next, data))
       /\ fileOff' = IF mode = "push" THEN fileOff + data.len ELSE fileOff
    /\ next' = NextIndex(next)
    /\ touched' = touched \cup {next}
    /\ enqueued' = [enqueued EXCEPT ![next] = @ + 1]
    /\ UNCHANGED <<pc, outcome, failedChunk, cancelled, startChunk, totalChunks,
                   transferred, closed, workers, remoteHashes, mu, localOff,
                   envVars, resumeSize, verified, acked, attempts, cancelPhase,
                   extractRan, stagingRemoved, statFailed,
                   mainVars, recovered, validated, dequeued>>

\* case <-ctx.Done() of the producer's select is ready
ProducerNeverDone(ctxErr) == FALSE

ProducerDoneReady(ctxErr) == ctxErr

\* case <-ctx.Done(): break ProducerLoop, then close(chunkChan)
ProducerCancelled ==
    /\ pc = "produce"
    /\ next < totalChunks
    /\ ProducerDoneReady(cancelled)
    /\ closed' = TRUE
    /\ pc' = "wait"
    /\ UNCHANGED <<outcome, failedChunk, cancelled, startChunk, totalChunks,
                   transferred, fileOff, next, chunkChan, workers, remoteHashes,
                   mu, localOff, envVars, histVars,
                   mainVars, ghostVars>>

\* the loop condition i < totalChunks fails, then close(chunkChan)
ProducerDone ==
    /\ pc = "produce"
    /\ ~(next < totalChunks)
    /\ closed' = TRUE
    /\ pc' = "wait"
    /\ UNCHANGED <<outcome, failedChunk, cancelled, startChunk, totalChunks,
                   transferred, fileOff, next, chunkChan, workers, remoteHashes,
                   mu, localOff, envVars, histVars,
                   mainVars, ghostVars>>


\* ------------------------------------------------------------------------
\* Worker goroutines

\* for r := 0; r < MaxRetry; r++
RetryLoopOneMore(r) == r <= MaxRetry

RetryLoopOnce(r) == r < 1

RetryLoop(r) == r < MaxRetry

\* if err == nil && localHash == remoteHash { success = true }
PushAttemptIgnoresHash(err, localHash, remoteHash) == ~err

PushAttemptOk(err, localHash, remoteHash) == ~err /\ localHash = remoteHash

\* if sha256Bytes(out) == strings.TrimSpace(remoteHashes[idx-startChunk])
PullHashAny(out, hashes, idx, start) == TRUE

PullHashOk(out, hashes, idx, start) == sha256Bytes(out) = hashes[idx - start + 1]

\* Entering attempt r of the retry loop for chunk c.  exec.CommandContext does
\* not start a command whose context is already done: Run/Output return the
\* context's error and the worker returns (if ctx.Err() != nil { return }).
\* When the loop condition fails success is still false: fatal("Chunk %d failed").
Attempt(wk, c, r) ==
    IF ~RetryLoop(r)
    THEN /\ Fatal("ChunkFailed")
         /\ failedChunk' = c.Index
         /\ workers' = Becomes(wk, Worker("fatal", c, r))
         /\ UNCHANGED attempts
    ELSE /\ UNCHANGED <<pc, outcome, failedChunk>>
         /\ IF cancelled
            THEN /\ workers' = Becomes(wk, Returned)
                 /\ attempts' = [attempts EXCEPT ![c.Index] = 0]
            ELSE /\ workers' = Becomes(wk,
                        Worker(IF mode = "push" THEN "dd" ELSE "fetch", c, r))
                 /\ attempts' = [attempts EXCEPT ![c.Index] = @ + 1]

\* case chunk, ok := <-chunkChan with ok = true, then the first attempt
WorkerReceive(wk) ==
    /\ pc # "exited"
    /\ wk.pc = "select"
    /\ chunkChan # <<>>
    /\ chunkChan' = Tail(chunkChan)
    /\ dequeued' = [dequeued EXCEPT ![Head(chunkChan).Index] = @ + 1]
    /\ Attempt(wk, Head(chunkChan), 0)
    /\ UNCHANGED <<cancelled, startChunk, totalChunks, transferred, fileOff, next,
                   closed, remoteHashes, mu, localOff, envVars, resumeSize,
                   verified, acked, touched, cancelPhase, extractRan,
                   stagingRemoved, statFailed,
                   mainVars, recovered, validated, enqueued>>

\* case chunk, ok := <-chunkChan with ok = false: return
WorkerChannelClosed(wk) ==
    /\ pc # "exited"
    /\ wk.pc = "select"
    /\ chunkChan = <<>>
    /\ closed
    /\ workers' = Becomes(wk, Returned)
    /\ UNCHANGED <<pc, outcome, failedChunk, cancelled, startChunk, totalChunks,
                   transferred, fileOff, next, chunkChan, closed, remoteHashes,
                   mu, localOff, envVars, histVars,
                   mainVars, ghostVars>>

\* case <-ctx.Done(): return
WorkerCtxDone(wk) ==
    /\ pc # "exited"
    /\ wk.pc = "select"
    /\ cancelled
    /\ workers' = Becomes(wk, Returned)
    /\ UNCHANGED <<pc, outcome, failedChunk, cancelled, startChunk, totalChunks,
                   transferred, fileOff, next, chunkChan, closed, remoteHashes,
                   mu, localOff, envVars, histVars,
                   mainVars, ghostVars>>

\* What a dd that was cut short (killed, failed, orphaned) left behind of b:
\* nothing, its first byte only, or all of it.
Prefix(b) == Bytes(b.kind, b.k, 1)
CutShort(b) == {Empty, b} \cup (IF b.len > 1 THEN {Prefix(b)} ELSE {})
Corrupted(b) == Bytes("bad", 0, b.len)

\* the remote dd of=<staging> seek=Index conv=notrunc fed with part
RemoteWrite(st, i, part) == IF part = Empty THEN st ELSE WriteAt(st, i, part)

\* cmd.Run() of the remote dd returns (push)
WorkerDD(wk) ==
    LET c == wk.chunk
        r == wk.r
    IN
    /\ pc # "exited"
    /\ wk.pc = "dd"
    /\ IF cancelled
       THEN \* the ssh child was killed: err != nil and ctx.Err() != nil: return
            /\ \E part \in CutShort(c.Data) : staging' = RemoteWrite(staging, c.Index, part)
            /\ workers' = Becomes(wk, Returned)
            /\ attempts' = [attempts EXCEPT ![c.Index] = 0]
            /\ UNCHANGED <<pc, outcome, failedChunk>>
       ELSE \/ \* err != nil: continue
               /\ \E part \in CutShort(c.Data) \ {c.Data} :
                     staging' = RemoteWrite(staging, c.Index, part)
               /\ Attempt(wk, c, r + 1)
            \/ \* err == nil: the bytes were written (or damaged on the way)
               /\ \E b \in {c.Data, Corrupted(c.Data)} :
                     staging' = RemoteWrite(staging, c.Index, b)
               /\ workers' = Becomes(wk, Worker("hash", c, r))
               /\ UNCHANGED <<pc, outcome, failedChunk, attempts>>
    /\ UNCHANGED <<cancelled, startChunk, totalChunks, transferred, fileOff, next,
                   chunkChan, closed, remoteHashes, mu, localOff, mode, target, totalBytes,
                   run, archiveChanged, resumeSize, verified, acked, touched,
                   cancelPhase, extractRan, stagingRemoved, statFailed,
                   mainVars, ghostVars>>

\* atomic.AddInt64(&transferred, int64(len(chunk.Data)))
AddInt64(t, n) == t + n

\* sshCmd(dd if=<staging> skip=Index count=1 | sha256sum) returns (push),
\* the comparison, and on success atomic.AddInt64(&transferred, len)
WorkerHash(wk) ==
    LET c == wk.chunk
        r == wk.r
        localHash == sha256Bytes(c.Data)
        remoteHash == sha256Bytes(ReadBlock(staging, c.Index))
    IN
    /\ pc # "exited"
    /\ wk.pc = "hash"
    /\ \E err \in BOOLEAN :
         IF PushAttemptOk(err, localHash, remoteHash)
         THEN /\ transferred' = AddInt64(transferred, c.Data.len)
              /\ acked' = acked \cup {c.Index}
              /\ verified' = IF ~err /\ localHash = remoteHash
                             THEN verified \cup {c.Index} ELSE verified
              /\ workers' = Becomes(wk, Selecting)
              /\ attempts' = [attempts EXCEPT ![c.Index] = 0]
              /\ recovered' = (recovered \/ r > 0)
              /\ UNCHANGED <<pc, outcome, failedChunk>>
         ELSE /\ Attempt(wk, c, r + 1)
              /\ UNCHANGED <<transferred, acked, verified, recovered>>
    /\ UNCHANGED <<cancelled, startChunk, totalChunks, fileOff, next, chunkChan,
                   closed, remoteHashes, mu, localOff, envVars, resumeSize,
                   touched, cancelPhase, extractRan, stagingRemoved, statFailed,
                   mainVars, validated, enqueued, dequeued>>

\* exec.CommandContext(dd if=remoteTmp skip=idx count=1).Output() returns (pull)
WorkerFetch(wk) ==
    LET c == wk.chunk
        r == wk.r
    IN
    /\ pc # "exited"
    /\ wk.pc = "fetch"
    /\ IF cancelled
       THEN \* killed: err != nil and ctx.Err() != nil: return
            /\ workers' = Becomes(wk, Returned)
            /\ attempts' = [attempts EXCEPT ![c.Index] = 0]
            /\ UNCHANGED <<pc, outcome, failedChunk, verified, recovered>>
       ELSE \/ \* err != nil: continue
               /\ Attempt(wk, c, r + 1)
               /\ UNCHANGED <<verified, recovered>>
            \/ \E out \in {SourceChunk(totalBytes, c.Index),
                           Corrupted(SourceChunk(totalBytes, c.Index))} :
                 IF PullHashOk(out, remoteHashes, c.Index, startChunk)
                 THEN /\ workers' = Becomes(wk,
                             Worker("lock", Chunk(c.Index, out), 0))
                      /\ verified' =
                             IF sha256Bytes(out) = remoteHashes[c.Index - startChunk + 1]
                             THEN verified \cup {c.Index} ELSE verified
                      /\ recovered' = (recovered \/ r > 0)
                      /\ UNCHANGED <<pc, outcome, failedChunk, attempts>>
                 ELSE /\ Attempt(wk, c, r + 1)
                      /\ UNCHANGED <<verified, recovered>>
    /\ UNCHANGED <<cancelled, startChunk, totalChunks, transferred, fileOff, next,
                   chunkChan, closed, remoteHashes, mu, localOff, envVars,
                   resumeSize, acked, touched, cancelPhase, extractRan,
                   stagingRemoved, statFailed,
                   mainVars, validated, enqueued, dequeued>>

\* mu.Lock() returns only while no other goroutine holds mu
LockNeverWaits(held) == TRUE

Lock(held) == ~held

\* mu.Lock(); localFile.Seek(int64(idx)*ChunkSize, io.SeekStart)
WorkerLockSeek(wk) ==
    /\ pc # "exited"
    /\ wk.pc = "lock"
    /\ Lock(mu)
    /\ mu' = TRUE
    /\ localOff' = wk.chunk.Index * ChunkSize
    /\ workers' = Becomes(wk, Worker("write", wk.chunk, 0))
    /\ UNCHANGED <<pc, outcome, failedChunk, cancelled, startChunk, totalChunks,
                   transferred, fileOff, next, chunkChan, closed, remoteHashes,
                   envVars, histVars,
                   mainVars, ghostVars>>

\* localFile.Write(chunkData); atomic.AddInt64(&transferred, len); mu.Unlock()
WorkerWrite(wk) ==
    LET c == wk.chunk IN
    /\ pc # "exited"
    /\ wk.pc = "write"
    /\ staging' = WriteAt(staging, localOff \div ChunkSize, c.Data)
    /\ localOff' = localOff + c.Data.len
    /\ transferred' = AddInt64(transferred, c.Data.len)
    /\ mu' = FALSE
    /\ acked' = acked \cup {c.Index}
    /\ attempts' = [attempts EXCEPT ![c.Index] = 0]
    /\ workers' = Becomes(wk, Selecting)
    /\ UNCHANGED <<pc, outcome, failedChunk, cancelled, startChunk, totalChunks,
                   fileOff, next, chunkChan, closed, remoteHashes, mode, target,
                   totalBytes, run, archiveChanged, resumeSize, verified, touched,
                   cancelPhase, extractRan, stagingRemoved, statFailed,
                   mainVars, ghostVars>>


\* ------------------------------------------------------------------------
\* After the producer: wg.Wait(), the cancellation check, validation, extraction

\* if ctx.Err() != nil { fatal("Push cancelled" / "Pull cancelled") }
CancelCheckSkipped(ctxErr) == FALSE

CancelCheck(ctxErr) == ctxErr

AfterWait ==
    /\ pc = "wait"
    /\ Running = {Returned}
    /\ IF CancelCheck(cancelled)
       THEN Fatal("Cancelled")
       ELSE /\ pc' = IF mode = "push" THEN "validate" ELSE "extract"
            /\ UNCHANGED outcome
    /\ UNCHANGED <<failedChunk, cancelled, startChunk, totalChunks, transferred,
                   fileOff, next, chunkChan, closed, workers, remoteHashes, mu,
                   localOff, envVars, histVars,
                   mainVars, ghostVars>>

\* tar can read the staging file only if it is the archive, byte for byte
ArchiveIntact(st, total) ==
    /\ st.exists
    /\ st.size = total
    /\ \A i \in Slots : i < TotalChunks(total) => BlockIsSource(st, total, i)

\* sshCmd(tar -tzf <staging> > /dev/null) (push only)
Validate ==
    /\ pc = "validate"
    /\ \/ /\ ArchiveIntact(staging, totalBytes)
          /\ pc' = "extract"
          /\ validated' = TRUE
          /\ UNCHANGED outcome
       \/ /\ Fatal("ArchiveCorrupted")
          /\ UNCHANGED validated
    /\ UNCHANGED <<failedChunk, cancelled, startChunk, totalChunks, transferred,
                   fileOff, next, chunkChan, closed, workers, remoteHashes, mu,
                   localOff, envVars, histVars,
                   mainVars, recovered, enqueued, dequeued>>

\* push() or pull() returns and main() after it.  The deferred calls run:
\* os.Remove(tmpTar) (push), ssh -S <socket> -O exit, cancel().
Return ==
    /\ pc' = "exited"
    /\ outcome' = "Success"
    /\ tmpTar' = IF mode = "push" THEN FALSE ELSE tmpTar
    /\ master' = "exit_sent"

\* push: tar -xzf <staging> -C remotePath && rm -f <staging>, one remote command
\* pull: on return from pull() the deferred os.Remove(localTmp)
StagingAlwaysRemoved(st, ok) == NoFile

StagingAfterExtract(st, ok) == IF ok THEN NoFile ELSE st

\* push: sshCmd(tar -xzf <staging> -C remotePath && rm -f <staging>)
\* pull: tar -xzf localTmp -C localDir
Extract ==
    /\ pc = "extract"
    /\ extractRan' = TRUE
    /\ \E ok \in {ArchiveIntact(staging, totalBytes), FALSE} :
         /\ staging' = StagingAfterExtract(staging, ok)
         /\ stagingRemoved' = (staging.exists /\ ~staging'.exists)
         /\ IF ok
            THEN Return
            ELSE /\ Fatal("ExtractionFailed")
                 /\ UNCHANGED <<master, tmpTar>>
    /\ UNCHANGED <<failedChunk, cancelled, startChunk, totalChunks, transferred,
                   fileOff, next, chunkChan, closed, workers, remoteHashes, mu,
                   localOff, mode, target, totalBytes, run, archiveChanged, resumeSize,
                   verified, acked, touched, attempts, cancelPhase, statFailed,
                   remoteCmd, ghostVars>>

\* ------------------------------------------------------------------------
\* Between two invocations

\* A remote dd that was still running when the process exited ends on its own.
OrphanDD(wk) ==
    LET c == wk.chunk IN
    /\ pc = "exited"
    /\ wk.pc = "dd"
    /\ \E part \in CutShort(c.Data) : staging' = RemoteWrite(staging, c.Index, part)
    /\ workers' = Becomes(wk, Returned)
    /\ UNCHANGED <<pc, outcome, failedChunk, cancelled, startChunk, totalChunks,
                   transferred, fileOff, next, chunkChan, closed, remoteHashes,
                   mu, localOff, mode, target, totalBytes, run, archiveChanged, histVars,
                   mainVars, ghostVars>>

\* what the staging file holds once the source archive has been rebuilt from
\* a changed directory: nothing of it is a chunk of the new archive
Stale(st) ==
    [st EXCEPT !.data = [j \in Slots |->
        IF st.data[j].kind = "src" THEN [kind |-> "bad", k |-> 0] ELSE st.data[j]]]

\* The operator runs the same command again over the staging file an earlier
\* run left behind (without one the new run is a first run again).
Restart ==
    /\ pc = "exited"
    /\ run < MaxRuns
    /\ staging.exists
    /\ \A wk \in Running : wk.pc # "dd"
    /\ run' = run + 1
    /\ UNCHANGED <<mode, target, tmpTar>>
    /\ \/ UNCHANGED <<totalBytes, staging, archiveChanged>>
       \/ \* the source directory changed in between
          /\ totalBytes' \in Sizes
          /\ staging' = Stale(staging)
          /\ archiveChanged' = TRUE
    /\ pc' = "main_target"
    /\ StartProcess

Next ==
    \/ MainTarget
    \/ MainMaster
    \/ MainMode
    \/ Cancel
    \/ PushArchive
    \/ PushMkdir
    \/ PushResume
    \/ PullArchive
    \/ PullStat
    \/ PullResume
    \/ PullPrefetch
    \/ ProducerSend
    \/ ProducerCancelled
    \/ ProducerDone
    \/ \E wk \in Running : WorkerReceive(wk)
    \/ \E wk \in Running : WorkerChannelClosed(wk)
    \/ \E wk \in Running : WorkerCtxDone(wk)
    \/ \E wk \in Running : WorkerDD(wk)
    \/ \E wk \in Running : WorkerHash(wk)
    \/ \E wk \in Running : WorkerFetch(wk)
    \/ \E wk \in Running : WorkerLockSeek(wk)
    \/ \E wk \in Running : WorkerWrite(wk)
    \/ AfterWait
    \/ Validate
    \/ Extract
    \/ \E wk \in Running : OrphanDD(wk)
    \/ Restart

Spec == Init /\ [][Next]_vars

\* main() alone, up to the call of push() or pull(), for every command line
InitArgs ==
    /\ target \in Targets
    /\ Arguments

NextArgs ==
    \/ MainTarget
    \/ MainMaster
    \/ MainMode

SpecArgs == InitArgs /\ [][NextArgs]_vars

\* One first run of an archive that does not fit into chunkChan, with the
\* scheduler and the remote side fair: every goroutine that can take a step
\* eventually takes one and every command that was started returns.
InitPool ==
    /\ mode \in {"push", "pull"}
    /\ target = <<"u", "@", "u", ":", "u">>
    /\ totalBytes \in PoolSizes
    /\ staging = NoFile
    /\ tmpTar = FALSE
    /\ pc = "main_target"
    /\ run = 1
    /\ archiveChanged = FALSE
    /\ FreshProcess

NextPool ==
    \/ MainTarget
    \/ MainMaster
    \/ MainMode
    \/ Cancel
    \/ PushArchive
    \/ PushMkdir
    \/ PushResume
    \/ PullArchive
    \/ PullStat
    \/ PullResume
    \/ PullPrefetch
    \/ ProducerSend
    \/ ProducerCancelled
    \/ ProducerDone
    \/ \E wk \in Running : WorkerReceive(wk)
    \/ \E wk \in Running : WorkerChannelClosed(wk)
    \/ \E wk \in Running : WorkerCtxDone(wk)
    \/ \E wk \in Running : WorkerDD(wk)
    \/ \E wk \in Running : WorkerHash(wk)
    \/ \E wk \in Running : WorkerFetch(wk)
    \/ \E wk \in Running : WorkerLockSeek(wk)
    \/ \E wk \in Running : WorkerWrite(wk)
    \/ AfterWait
    \/ Validate
    \/ Extract

\* a step of the producer, of a worker, or the return of wg.Wait()
PoolStep ==
    \/ ProducerSend
    \/ ProducerCancelled
    \/ ProducerDone
    \/ \E wk \in Running : WorkerReceive(wk)
    \/ \E wk \in Running : WorkerChannelClosed(wk)
    \/ \E wk \in Running : WorkerCtxDone(wk)
    \/ \E wk \in Running : WorkerDD(wk)
    \/ \E wk \in Running : WorkerHash(wk)
    \/ \E wk \in Running : WorkerFetch(wk)
    \/ \E wk \in Running : WorkerLockSeek(wk)
    \/ \E wk \in Running : WorkerWrite(wk)
    \/ AfterWait

\* as long as some goroutine of the pool can take a step, one of them does
FairPool == WF_vars(PoolStep)

SpecPool == InitPool /\ [][NextPool]_vars /\ FairPool


\* ========================================================================
\* Properties

\* the run got past wg.Wait() and the cancellation check
PastWorkerPhase ==
    \/ pc \in {"validate", "extract"}
    \/ pc = "exited" /\ outcome \in {"ArchiveCorrupted", "ExtractionFailed", "Success"}

\* the chunk indices this run has to transfer
Planned == { i \in Slots : startChunk <= i /\ i < totalChunks }

\* no block of the staging file holds bytes other than source bytes or a hole
Undamaged(st) == \A j \in Slots : st.data[j].kind # "bad"

\* C1: a run (push or pull) that gets past the worker phase has, for every
\* chunk index in [startChunk, totalChunks), a worker that processed it and an
\* attempt in which the receiving-side SHA-256 equalled the sending-side one.
C1_AllPlannedChunksVerified ==
    PastWorkerPhase => \A i \in Planned : i \in acked /\ i \in verified

\* a run over two chunks got past the worker phase
C1_Witness ==
    /\ PastWorkerPhase
    /\ Cardinality(Planned) >= 2
    /\ acked = Planned

\* C2: once the worker phase completed successfully the staging file holds at
\* every chunk position the bytes of the source archive's chunk, also when the
\* run resumed from the staging file of an earlier cancelled or aborted run
\* of the same transfer.
\* (Stated for runs in which no write was damaged, so that what refutes it is
\* the order in which chunks completed and nothing else.)
C2_StagingIsSourceAfterWorkers ==
    (pc \in {"validate", "extract"} /\ ~archiveChanged /\ Undamaged(staging))
        => \A i \in Slots : i < totalChunks => BlockIsSource(staging, totalBytes, i)

\* C3: a run that ends because of cancellation leaves a staging file whose
\* size is an exact multiple of ChunkSize.
C3_CancelledIsChunkAligned ==
    outcome = "Cancelled" => staging.size % ChunkSize = 0

\* the token was triggered before the extraction step started
CancelledBeforeExtract == cancelPhase \in {"transfer", "validate"}

\* C4: a run whose token was triggered before the extraction step never
\* extracts and never deletes the staging file.
C4_CancelledNeverExtracts ==
    (pc = "exited" /\ CancelledBeforeExtract) => ~extractRan /\ ~stagingRemoved

\* the token was triggered before wg.Wait() returned
CancelledBeforeDrain == cancelPhase = "transfer"

\* C5: a run cancelled before the workers drained never validates, extracts or
\* succeeds, and once all workers have returned it ends as Cancelled.
C5_CancelledBeforeDrainEndsCancelled ==
    CancelledBeforeDrain =>
        /\ pc \notin {"validate", "extract"}
        /\ outcome \notin {"Success", "ArchiveCorrupted", "ExtractionFailed"}
        /\ ~extractRan
        /\ (pc = "exited" /\ Running = {Returned})
              => outcome = "Cancelled"

\* a push acknowledged a chunk, was cancelled and ended as Cancelled
C5_Witness ==
    /\ outcome = "Cancelled"
    /\ acked # {}
    /\ cancelPhase = "transfer"


\* the push got past its resume check
PushPastResume ==
    /\ mode = "push"
    /\ \/ pc \in {"produce", "wait", "validate", "extract"}
       \/ pc = "exited" /\ outcome \notin {"TarFailed", "RemoteMkdirFailed", "CorruptResume"}

\* no worker was started and no chunk was read, enqueued or sent
NothingMoved ==
    /\ Running = {NotStarted}
    /\ touched = {}
    /\ chunkChan = <<>>
    /\ \A i \in Slots : attempts[i] = 0

PullPastResume ==
    /\ mode = "pull"
    /\ \/ pc \in {"pull_prefetch", "produce", "wait", "extract"}
       \/ pc = "exited" /\ outcome \notin {"RemoteTarFailed", "RemoteStatFailed"}

\* the size the pull resume check found is not an admissible partial
PullInadmissible == resumeSize % ChunkSize # 0 \/ resumeSize > totalBytes

\* C7: a pull that finds a local staging file whose size is misaligned or
\* larger than the remote archive does not abort: it starts from an emptied
\* staging file with startChunk = 0 and transferredBytes = 0, and fetches
\* every chunk in [0, totalChunks).
C7_PullResumeRestarts ==
    (PullPastResume /\ PullInadmissible) =>
        /\ startChunk = 0
        /\ outcome # "CorruptResume"
        /\ pc = "pull_prefetch" => (staging.exists /\ staging.size = 0)
        /\ (pc = "produce" /\ acked = {}) => transferred = 0
        /\ \A i \in touched : i < totalChunks
        /\ PastWorkerPhase => \A i \in Slots : i < totalChunks => i \in acked

\* a pull found a misaligned staging file and fetched both chunks again
C7_Witness ==
    /\ mode = "pull"
    /\ run > 1
    /\ resumeSize % ChunkSize # 0
    /\ pc = "extract"
    /\ acked = {0, 1}

\* the run got past an admissible resume check
ResumedAdmissibly ==
    /\ PushPastResume \/ (PullPastResume /\ ~PullInadmissible)

C9_SkippedChunksArePresent ==
    (pc \in {"produce", "wait", "validate", "extract"} /\ ~archiveChanged
        /\ Undamaged(staging))
        => \A i \in Slots : i < startChunk => BlockIsSource(staging, totalBytes, i)

\* chunk i is held by no worker: nothing is in flight for it
Idle(i) ==
    \A wk \in Running : wk.pc \in {"dd", "hash", "fetch", "lock", "write", "fatal"}
                    => wk.chunk.Index # i

\* C10: a chunk gets at most MaxRetry attempts; when all of them failed and
\* the run was not cancelled, the job has ended as ChunkFailed for a chunk
\* that used up its attempts, without validation or extraction and with the
\* staging file left in place.
C10_RetryExhaustedAborts ==
    /\ \A i \in Slots : attempts[i] <= MaxRetry
    /\ \A i \in Slots :
          (attempts[i] = MaxRetry /\ i \notin acked /\ Idle(i) /\ ~cancelled)
              => outcome = "ChunkFailed"
    /\ outcome = "ChunkFailed" =>
          /\ pc = "exited"
          /\ attempts[failedChunk] = MaxRetry
          /\ failedChunk \notin acked
          /\ ~extractRan
          /\ ~stagingRemoved
          /\ mode = "pull" => staging.exists

\* chunk 1 used up its attempts without a cancellation
C10_Witness ==
    /\ outcome = "ChunkFailed"
    /\ failedChunk = 1
    /\ ~cancelled
    /\ 0 \in acked

\* C11: a failed attempt before the last one does not abort the job: a worker
\* aborts only when MaxRetry attempts of its chunk have failed; a chunk whose
\* hashes matched is acknowledged (in pull: is on its way to being written);
\* a ChunkFailed abort never names such a chunk; and a run in which a retry
\* recovered a chunk ends in success unless something else failed.
C11_RetryRecovers ==
    /\ \A wk \in Running : wk.pc = "fatal" => wk.r = MaxRetry
    /\ \A i \in verified : i \in acked \/ ~Idle(i)
    /\ outcome = "ChunkFailed" => failedChunk \notin verified
    /\ (recovered /\ pc = "exited")
          => outcome \in {"Success", "Cancelled", "ChunkFailed",
                          "ArchiveCorrupted", "ExtractionFailed"}
    /\ (recovered /\ outcome = "ChunkFailed") => attempts[failedChunk] = MaxRetry

\* a run in which a chunk needed a second attempt ended in success
C11_Witness ==
    /\ recovered
    /\ ~cancelled
    /\ outcome = "Success"

\* C12: whenever the process has exited after it established the control
\* master, it has attempted ssh -O exit.
C12_TeardownOnEveryExit ==
    (pc = "exited" /\ master # "none") => master = "exit_sent"

\* C13: when a push has exited with one of the listed outcomes, the local
\* tarball in /tmp is gone.
C13_TarballRemovedOnExit ==
    (mode = "push" /\ pc = "exited"
        /\ outcome \in {"Success", "RemoteMkdirFailed", "CorruptResume", "ChunkFailed",
                        "Cancelled", "ArchiveCorrupted", "ExtractionFailed"})
        => ~tmpTar

\* C14: a run that ended because the mode is neither push nor pull started no
\* control master and sent no remote command.
C14_InvalidModeBeforeIO ==
    outcome = "InvalidMode" => (master = "none" /\ ~remoteCmd)

\* the positions of '@' in t
Ats(t) == { i \in 1 .. Len(t) : t[i] = "@" }
Least(S) == CHOOSE i \in S : \A j \in S : i <= j

\* the text after the first '@', up to the next '@' or the end, is not
\* <host>:<port>: it does not hold exactly one ':'
NotHostAndPort(t) ==
    LET a == Least(Ats(t))
        later == Ats(t) \ {a}
        b == IF later = {} THEN Len(t) + 1 ELSE Least(later)
    IN  Cardinality({ i \in (a + 1) .. (b - 1) : t[i] = ":" }) # 1

Malformed(t) ==
    \/ \A i \in 1 .. Len(t) : t[i] # "@"
    \/ \A i \in 1 .. Len(t) : t[i] # ":"
    \/ NotHostAndPort(t)

\* C15: once main is past its checks of a target that lacks '@', lacks ':' or
\* has no <host>:<port> after the '@', the process has exited with the invalid
\* target error, no control master was started and no remote command was sent.
C15_MalformedTargetBeforeIO ==
    (Malformed(target) /\ pc # "main_target")
        => /\ pc = "exited"
           /\ outcome \in {"InvalidTarget", "InvalidHostPort"}
           /\ master = "none"
           /\ ~remoteCmd

\* a target holding '@' and ':' but no host:port after the '@' was refused
C15_Witness ==
    /\ target = <<"@", "@", ":">>
    /\ outcome = "InvalidHostPort"
    /\ master = "none"

\* C16: in push and in pull, extraction starts only after tar -tzf accepted
\* the staging file, and a run that ended as ArchiveCorrupted ran no extraction.
C16_ValidatedBeforeExtraction ==
    /\ extractRan => validated
    /\ pc = "extract" => validated
    /\ outcome = "ArchiveCorrupted" => ~extractRan

\* C17: after the push resume stat failed (like any other non-chunk remote
\* command) the job has aborted: no chunk is read, enqueued or sent and the
\* run does not end in success.
C17_RemoteCommandFailureAborts ==
    statFailed =>
        /\ pc = "exited"
        /\ outcome # "Success"
        /\ touched = {}

\* the hash lines the remote loop printed for [startChunk, totalChunks)
EmittedLines == Len(HashLines(totalBytes, startChunk, totalChunks))

\* C18: a pull ends as RemoteHashCountMismatch only when the number of hash
\* lines the remote printed differs from totalChunks - startChunk; with
\* startChunk = totalChunks and no line printed it goes on to extraction.
C18_HashCountMismatchOnlyIfDifferent ==
    (mode = "pull" /\ ~archiveChanged /\ ArchiveIntact(staging, totalBytes)
        /\ outcome = "RemoteHashCountMismatch")
        => EmittedLines # totalChunks - startChunk

\* C19: a run that ended as ArchiveCorrupted or ExtractionFailed left the
\* staging file in place, and a staging file removed after the transfer was
\* removed by a successful extraction.
C19_StagingKeptOnFailure ==
    /\ outcome \in {"ArchiveCorrupted", "ExtractionFailed"}
          => (staging.exists /\ ~stagingRemoved)
    /\ stagingRemoved => (outcome = "Success" /\ extractRan)

\* a pull whose local extraction failed kept localTmp
C19_Witness ==
    /\ mode = "pull"
    /\ outcome = "ExtractionFailed"
    /\ staging.exists
    /\ staging.size = totalBytes

\* the workers that hold chunk i between receiving it and acknowledging it
Holders(i) ==
    { wk \in Running : /\ wk.pc \in {"dd", "hash", "fetch", "lock", "write"}
                       /\ wk.chunk.Index = i }

\* C20: within a run every index is sent on chunkChan at most once, and only
\* from [startChunk, totalChunks); it is received at most once; and at no time
\* do two workers hold the same index.
C20_EachChunkOnce ==
    /\ \A i \in Slots : enqueued[i] <= 1 /\ dequeued[i] <= enqueued[i]
    /\ \A i \in Slots : enqueued[i] > 0 => (startChunk <= i /\ i < totalChunks)
    /\ \A k, l \in 1 .. Len(chunkChan) :
          chunkChan[k].Index = chunkChan[l].Index => k = l
    /\ \A i \in Slots : \A wk \in Holders(i) :
          /\ Holders(i) = {wk}
          /\ CopiesIn(wk, workers) = 1
          /\ dequeued[i] = 1
          /\ i \notin acked

\* two workers write to the staging file at the same time, each its own chunk
C20_Witness ==
    /\ mode = "push"
    /\ Holders(0) # {}
    /\ Holders(1) # {}
    /\ \A wk \in Holders(0) \cup Holders(1) : wk.pc = "dd"

\* C22: from the moment the token is triggered the producer sends nothing more
\* on chunkChan.
C22_NoEnqueueAfterCancel ==
    [][(cancelled /\ pc = "produce") => enqueued' = enqueued]_vars

\* the worker goroutines of this run were started
PoolStarted == Running # {NotStarted}

\* C23: in pull, the bytes a worker is about to write have the SHA-256 of the
\* prefetched entry for their index, and every chunk written in this run was
\* written with bytes that passed that comparison.
C23_PullWritesOnlyVerified ==
    mode = "pull" =>
        /\ \A wk \in Running : wk.pc \in {"lock", "write"} =>
              /\ sha256Bytes(wk.chunk.Data)
                    = remoteHashes[wk.chunk.Index - startChunk + 1]
              /\ wk.chunk.Data = SourceChunk(totalBytes, wk.chunk.Index)
              /\ wk.chunk.Index \in verified
        /\ acked \subseteq verified
        /\ ~stagingRemoved => \A i \in acked : BlockIsSource(staging, totalBytes, i)

\* a pull worker writes a chunk that needed more than one attempt
C23_Witness ==
    /\ mode = "pull"
    /\ recovered
    /\ \E wk \in Running : wk.pc = "write" /\ wk.chunk.Index = 1

\* the workers between their Seek and the end of their Write
Writers == { wk \in Running : wk.pc = "write" }

\* C24: in pull at most one worker is between its seek and the end of its
\* write, it holds the mutex, and the file offset is the one its own seek set.
C24_SeekAndWriteUnderMutex ==
    /\ \A wk \in Writers :
          /\ Writers = {wk}
          /\ CopiesIn(wk, workers) = 1
          /\ mu
          /\ localOff = wk.chunk.Index * ChunkSize
    /\ mu => Writers # {}

\* one worker is inside the critical section while another waits for the mutex
C24_Witness ==
    /\ mode = "pull"
    /\ mu
    /\ \E wk \in Running : wk.pc = "write" /\ wk.chunk.Index = 0
    /\ \E wk \in Running : wk.pc = "lock" /\ wk.chunk.Index = 1

\* ceil(n / ChunkSize), as the least number of chunks that cover n bytes
Ceil(n) ==
    CHOOSE k \in 0 .. (Cardinality(Slots) + 1) :
        /\ k * ChunkSize >= n
        /\ \A j \in 0 .. (k - 1) : j * ChunkSize < n

\* a chunk before the last has ChunkSize bytes, the last has 1 .. ChunkSize
ChunkLenOk(i, len) ==
    IF i = totalChunks - 1 THEN 1 <= len /\ len <= ChunkSize
    ELSE len = ChunkSize

\* the chunk count of the code is the ceiling for 0 bytes and for every size
\* next to a multiple of ChunkSize
CeilOfEverySize ==
    \A n \in {0} \cup Sizes \cup PoolSizes : TotalChunks(n) = Ceil(n)

\* C25: totalChunks is ceil(totalBytes / ChunkSize), also for 0 bytes and for
\* exact multiples; every chunk sent or fetched has ChunkSize bytes except the
\* last, which has 1 .. ChunkSize; and when the producer has sent every index
\* the lengths sum to totalBytes - startChunk * ChunkSize.
C25_ChunkArithmetic ==
    /\ CeilOfEverySize
    /\ PoolStarted =>
          /\ totalChunks = Ceil(totalBytes)
          /\ \A k \in 1 .. Len(chunkChan) :
                mode = "push" => ChunkLenOk(chunkChan[k].Index, chunkChan[k].Data.len)
          /\ \A wk \in Running :
                wk.pc \in {"dd", "hash", "lock", "write"}
                    => ChunkLenOk(wk.chunk.Index, wk.chunk.Data.len)
          /\ (mode = "push" /\ pc \in {"produce", "wait"} /\ next = totalChunks)
                => fileOff - startChunk * ChunkSize
                      = totalBytes - startChunk * ChunkSize

\* an archive of exactly two chunks was read to its end in two chunks
C25_Witness ==
    /\ mode = "push"
    /\ totalBytes = 2 * ChunkSize
    /\ startChunk = 0
    /\ pc = "wait"
    /\ next = 2
    /\ totalChunks = 2

\* the bytes of the chunks in S
RECURSIVE SumLen(_)
SumLen(S) ==
    IF S = {} THEN 0
    ELSE LET i == CHOOSE j \in S : TRUE
         IN  BlockLen(totalBytes, i) + SumLen(S \ {i})

\* C26: transferred starts at the size of the staging file the run found,
\* grows by the length of a chunk exactly when the chunk is acknowledged,
\* never exceeds totalBytes, and is totalBytes once the workers have drained
\* without cancellation or failure.
C26_TransferredAccounting ==
    /\ (pc = "produce" /\ touched = {}) => transferred = staging.size
    /\ PoolStarted => transferred = startChunk * ChunkSize + SumLen(acked)
    /\ transferred <= totalBytes
    /\ PastWorkerPhase => transferred = totalBytes

\* the producer loop or the wait for the worker group is still going on
InPool == pc \in {"produce", "wait"}

\* C21: under fair scheduling the pool always comes to an end: from every
\* state in which the producer runs or main waits for the worker group, the
\* wait returns or the process exits; and when the wait has returned the
\* queue is closed and every worker has exited.
C21_PoolTerminates ==
    /\ InPool ~> ~InPool
    /\ [](pc \in {"validate", "extract"} => (closed /\ Running = {Returned}))

\* every worker has exited on cancellation while the producer, with a chunk
\* still to send, finds the queue full
C21_Witness ==
    /\ pc = "produce"
    /\ cancelled
    /\ next < totalChunks
    /\ Len(chunkChan) = Workers
    /\ Running = {Returned}

====
